---- MODULE Spec2Model ----
(***************************************************************************)
(* Loan aggregate of cyan-finance-backend: the Loan model                  *)
(* (src/models/Loan.js) with its pre('save') hook and recordPayment, and   *)
(* the route handlers that create, pay and update loans                    *)
(* (src/routes/loans.js, src/routes/admin.js, src/routes/employee.js).     *)
(*                                                                         *)
(* Money is modelled in whole units (integers); a JavaScript Number that   *)
(* the code computes by division is truncated to an integer.  A request    *)
(* body value is a JSON number or a JSON string, and the code's `+=` on a  *)
(* string concatenates before the schema casts the result to a Number.     *)
(*                                                                         *)
(* A handler is cut at its awaits on the database: findById is one step,   *)
(* the code up to and including save() is the next.  save() of an existing *)
(* document sends only the paths the handler modified ($set for scalars    *)
(* and array elements, $push for an appended payment).                     *)
(*                                                                         *)
(* A Number is a floating-point value: the model keeps MantissaBits        *)
(* significant bits where a double keeps 53, and rounds every sum,         *)
(* difference and product to the nearest such value, ties to even.         *)
(*                                                                         *)
(* A Date is a calendar day [m, d]: month m counted from a January, day of *)
(* month d, over years without a 29 February; the clock read by new Date() *)
(* is a count of days.                                                     *)
(*                                                                         *)
(* Five specifications share the actions: Spec runs overlapping requests   *)
(* on one calendar day, SpecCreate runs loan creation over the calendar,   *)
(* SpecSeq runs one request at a time with the clock, the receipt and      *)
(* mail outcomes and the early-repayment quote, SpecDeep runs longer       *)
(* sequences of overlapping payments on one loan whose total rounds, and   *)
(* SpecIds runs overlapping creations as the loans collection and its      *)
(* unique loanId index see them.  `cap` bounds the saves one loan takes in *)
(* a run.                                                                  *)
(***************************************************************************)
EXTENDS Integers, Sequences, FiniteSets, TLC

\* ---------------------------------------------------------------- bounds
MaxTerm == 2
MaxOps == 2
MaxLoans == 3

LoanIds == {1}
Reqs == {1, 2}

\* ---------------------------------------------------------------- inputs
\* Request body values for `amount`: JSON numbers, a JSON numeric string
\* and a non-numeric string.
NumAmounts == {-20, 0, 50, 120}
StrAmounts == {50}
Amounts == [kind : {"num"}, v : NumAmounts]
             \cup [kind : {"str"}, v : StrAmounts]
             \cup [kind : {"text"}, v : {0}]
Methods == {"handcash", "online", "cheque"}
Principals == {50, 100}
Rates == {-12, 0, 12}
Terms == 0..MaxTerm
ClientMonthlyPayments == {40}
AdminInputs == {1, 2}

\* createdAt (Date.now at construction) and the days new Date() lies after
\* it when a payment closes the loan.
CreationDates == {[m |-> 0, d |-> 31]}
ClockDays == {45}
\* The same inputs where the calendar, the clock and the rate are varied.
CalendarDays == {1, 15, 28, 29, 30, 31}
SeqRates == {-12, 0, 10, 12}
SeqClockDays == {1, 30, 31, 61}

NoLoan == [exists |-> FALSE]
NoHeld == [id |-> 0]

VARIABLES db, pc, held, out, failed, quote, cap, loans

vars == <<db, pc, held, out, failed, quote, cap, loans>>

\* ------------------------------------------------------- number helpers
RECURSIVE Pow(_, _)
Pow(b, e) == IF e = 0 THEN 1 ELSE b * Pow(b, e - 1)

RECURSIVE GCD(_, _)
GCD(a, b) == IF b = 0 THEN a ELSE GCD(b, a % b)

Min(a, b) == IF a <= b THEN a ELSE b

Abs(x) == IF x < 0 THEN -x ELSE x

RECURSIVE Digits(_)
Digits(n) == IF n < 10 THEN 1 ELSE 1 + Digits(n \div 10)

\* Significant bits kept of a Number.
MantissaBits == 13

RECURSIVE BitLength(_)
BitLength(x) == IF x = 0 THEN 0 ELSE 1 + BitLength(x \div 2)

\* The Number nearest to x, ties to the even mantissa.
Fl(x) ==
    LET mag == Abs(x)
        extra == BitLength(mag) - MantissaBits
        unit == Pow(2, extra)
        q == mag \div unit
        rest == mag % unit
        up == 2 * rest > unit \/ (2 * rest = unit /\ q % 2 = 1)
        r == (IF up THEN q + 1 ELSE q) * unit
    IN IF extra <= 0 THEN x ELSE IF x < 0 THEN -r ELSE r

\* JavaScript `x + a`: numeric addition for a number, text concatenation
\* for a string; the schema's Number cast then reads the text back
\* (50 + "50" is "5050", -20 + "50" is "-2050", 0 + "50" is "050").
PlusAssign(x, a) ==
    IF a.kind = "str"
    THEN (IF x < 0 THEN -1 ELSE 1) * (Abs(x) * Pow(10, Digits(a.v)) + a.v)
    ELSE x + a.v

RECURSIVE SumSeq(_, _)
SumSeq(s, field) ==
    IF s = <<>> THEN 0
    ELSE Fl((IF field = "amount" THEN s[1].amount ELSE s[1].amountPaid)
            + SumSeq(Tail(s), field))

\* express-validator isNumeric(): the body value, as text, is a number.
isNumeric(a) == a.kind \in {"num", "str"}

\* JavaScript ToNumber of a body value (Math.min, binary minus, schema cast).
ToNumber(a) == a.v

\* ------------------------------------------------------------ Loan model
\* ValidTerms without the minimum of 100 on the amount.
ValidTermsNoMinAmount(P, R, n) == n >= 1 /\ R >= 0

\* Schema validators of the financial terms (min 100, min 1, min 0); the
\* route validators of POST /loans state the same minimums.
ValidTerms(P, R, n) == P >= 100 /\ n >= 1 /\ R >= 0

\* A JavaScript Number: NaN, or the value val.
NaN == [nan |-> TRUE, val |-> 0]
Num(x) == [nan |-> FALSE, val |-> x]

\* pre('save'), isNew branch: P * r * (1 + r)^n / ((1 + r)^n - 1) with
\* r = (interestRate / 100) / 12, written over the reduced fraction
\* num/den of r.  At r = 0 the code evaluates 0 / 0, which is NaN.
Amortize(P, R, n) ==
    IF R = 0 THEN NaN
    ELSE LET g == GCD(R, 1200)
             num == R \div g
             den == 1200 \div g
             up == Pow(den + num, n)
         IN Num((P * num * up) \div (den * (up - Pow(den, n))))

\* ----------------------------------------------------------------- dates
\* Days of calendar month m (0 is a January).
DaysIn(m) ==
    IF m % 12 = 1 THEN 28
    ELSE IF m % 12 \in {3, 5, 8, 10} THEN 30 ELSE 31

\* currentDate.setMonth(currentDate.getMonth() + 1): the month advances,
\* the day of month is kept, and a day the new month does not have runs
\* over into the month after it.
setMonth(date) ==
    IF date.d <= DaysIn(date.m + 1)
    THEN [m |-> date.m + 1, d |-> date.d]
    ELSE [m |-> date.m + 2, d |-> date.d - DaysIn(date.m + 1)]

\* currentDate after i rounds of the hook's loop.
RECURSIVE DueDate(_, _)
DueDate(createdAt, i) ==
    IF i = 0 THEN createdAt ELSE setMonth(DueDate(createdAt, i - 1))

\* Date.prototype.getTime in days.
RECURSIVE DaysBefore(_)
DaysBefore(m) == IF m = 0 THEN 0 ELSE DaysIn(m - 1) + DaysBefore(m - 1)

getTime(date) == DaysBefore(date.m) + date.d

\* A Date path that was never assigned.
NoDate == 0

\* Schedule with every due date computed from createdAt instead of from
\* the date carried through the loop.
ScheduleFromCreatedAt(n, mp, createdAt) ==
    [i \in 1..n |-> [number |-> i, dueDate |-> setMonth(createdAt),
                     amount |-> mp, status |-> "pending", amountPaid |-> 0]]

\* Installment schedule built by the hook's loop.
Schedule(n, mp, createdAt) ==
    [i \in 1..n |-> [number |-> i, dueDate |-> DueDate(createdAt, i),
                     amount |-> mp, status |-> "pending", amountPaid |-> 0]]

\* The document a create request stores: the route's loanData after the
\* pre('save') hook.  Assigning NaN to a Number path fails the schema cast
\* and leaves the path at the value the request supplied.
NewLoan(P, R, n, clientMP, annot, createdAt) ==
    LET raw == Amortize(P, R, n)
        mp == IF raw.nan THEN clientMP ELSE Fl(raw.val)
    IN [exists |-> TRUE,
        amount |-> P, interestRate |-> R, term |-> n,
        monthlyPayment |-> mp,
        totalPayment |-> Fl(mp * n),
        remainingBalance |-> Fl(mp * n),
        totalPaid |-> 0,
        status |-> "active",
        createdAt |-> createdAt,
        closedDate |-> NoDate,
        actualRepaymentDate |-> NoDate,
        actualAmountPaid |-> 0,
        installments |-> Schedule(n, mp, createdAt),
        payments |-> <<>>,
        annot |-> annot,
        v |-> 0]

\* FindFrom looking for 'pending' installments only.
RECURSIVE FindFromPendingOnly(_, _)
FindFromPendingOnly(insts, i) ==
    IF i > Len(insts) THEN 0
    ELSE IF insts[i].status = "pending" THEN i
    ELSE FindFromPendingOnly(insts, i + 1)

\* First unpaid or partially paid installment (Array.prototype.find);
\* 0 when find returns undefined.
RECURSIVE FindFrom(_, _)
FindFrom(insts, i) ==
    IF i > Len(insts) THEN 0
    ELSE IF insts[i].status \in {"pending", "partial"} THEN i
    ELSE FindFrom(insts, i + 1)

CurrentInstallment(doc) == FindFrom(doc.installments, 1)

InstallmentStatus(amountPaid, amount) ==
    IF amountPaid >= amount THEN "paid" ELSE "partial"

IsClosing(remainingBalance) == remainingBalance <= 0

\* recordPayment applying the whole amount to the installment, without
\* Math.min against the installment's room.
recordPaymentNoMin(doc, a, now) ==
    LET i == CurrentInstallment(doc)
        cur == doc.installments[i]
        remainingForInstallment == Fl(cur.amount - cur.amountPaid)
        appliedToInstallment == ToNumber(a)
        paid == Fl(cur.amountPaid + appliedToInstallment)
        payment == [amount |-> ToNumber(a),
                    installmentNumber |-> cur.number,
                    remainingBalance |->
                        Fl(doc.remainingBalance - ToNumber(a))]
        totalPaid == Fl(PlusAssign(doc.totalPaid, a))
        remainingBalance == Fl(doc.remainingBalance - ToNumber(a))
        d1 == [doc EXCEPT
                 !.installments[i].amountPaid = paid,
                 !.installments[i].status = InstallmentStatus(paid, cur.amount),
                 !.totalPaid = totalPaid,
                 !.remainingBalance = remainingBalance,
                 !.payments = Append(doc.payments, payment)]
    IN IF IsClosing(remainingBalance)
       THEN [d1 EXCEPT !.status = "closed",
                       !.closedDate = now,
                       !.actualRepaymentDate = now,
                       !.actualAmountPaid = totalPaid]
       ELSE d1

\* recordPayment up to its save(): the loaded document after the method's
\* assignments, new Date() reading now.  Defined when
\* CurrentInstallment(doc) # 0.
recordPayment(doc, a, now) ==
    LET i == CurrentInstallment(doc)
        cur == doc.installments[i]
        remainingForInstallment == Fl(cur.amount - cur.amountPaid)
        appliedToInstallment == Min(ToNumber(a), remainingForInstallment)
        paid == Fl(cur.amountPaid + appliedToInstallment)
        payment == [amount |-> ToNumber(a),
                    installmentNumber |-> cur.number,
                    remainingBalance |->
                        Fl(doc.remainingBalance - ToNumber(a))]
        totalPaid == Fl(PlusAssign(doc.totalPaid, a))
        remainingBalance == Fl(doc.remainingBalance - ToNumber(a))
        d1 == [doc EXCEPT
                 !.installments[i].amountPaid = paid,
                 !.installments[i].status = InstallmentStatus(paid, cur.amount),
                 !.totalPaid = totalPaid,
                 !.remainingBalance = remainingBalance,
                 !.payments = Append(doc.payments, payment)]
    IN IF IsClosing(remainingBalance)
       THEN [d1 EXCEPT !.status = "closed",
                       !.closedDate = now,
                       !.actualRepaymentDate = now,
                       !.actualAmountPaid = totalPaid]
       ELSE d1

\* Math.round of the fraction a / b, b > 0.
Round(a, b) == (2 * a + b) \div (2 * b)

\* Math.ceil of the fraction a / b, a >= 0, b > 0.
Ceil(a, b) == (a + b - 1) \div b

Max(a, b) == IF a >= b THEN a ELSE b

\* calculateEarlyRepaymentAmount without Math.max(..., 0).
calculateEarlyRepaymentAmountNoMax(doc) ==
    IF doc.actualRepaymentDate = NoDate
    THEN doc.remainingBalance
    ELSE LET days == doc.actualRepaymentDate - getTime(doc.createdAt)
             monthsUsed == Ceil(days * 100, 3044)
             owed == 1200 * doc.amount
                       + doc.amount * doc.interestRate * monthsUsed
                       - 1200 * doc.totalPaid
         IN Round(owed, 1200)

\* calculateEarlyRepaymentAmount: months of 30.44 days between createdAt
\* and actualRepaymentDate, simple interest on the principal for those
\* months, less what was paid; p + p * r * monthsUsed - totalPaid is kept
\* as a fraction over 1200.
calculateEarlyRepaymentAmount(doc) ==
    IF doc.actualRepaymentDate = NoDate
    THEN doc.remainingBalance
    ELSE LET days == doc.actualRepaymentDate - getTime(doc.createdAt)
             monthsUsed == Ceil(days * 100, 3044)
             owed == 1200 * doc.amount
                       + doc.amount * doc.interestRate * monthsUsed
                       - 1200 * doc.totalPaid
         IN Round(Max(owed, 0), 1200)

\* save() of a loaded document: every path whose value the handler changed
\* is $set to the document's value, the payment pushed onto the document is
\* $push-ed onto the stored array, every other path keeps the stored value.
ScalarPaths == {"totalPaid", "remainingBalance", "status", "closedDate",
                "actualRepaymentDate", "actualAmountPaid", "annot"}

SaveInstallment(st, before, after) ==
    [st EXCEPT
       !.amountPaid = IF after.amountPaid # before.amountPaid
                      THEN after.amountPaid ELSE @,
       !.status = IF after.status # before.status THEN after.status ELSE @]

ApplyDelta(stored, before, after) ==
    [f \in DOMAIN stored |->
       IF f \in ScalarPaths
       THEN IF after[f] # before[f] THEN after[f] ELSE stored[f]
       ELSE IF f = "installments"
       THEN [i \in DOMAIN stored.installments |->
               SaveInstallment(stored.installments[i],
                               before.installments[i], after.installments[i])]
       ELSE IF f = "payments"
       THEN stored.payments
              \o SubSeq(after.payments, Len(before.payments) + 1,
                        Len(after.payments))
       ELSE IF f = "v"
       THEN IF after # before THEN stored.v + 1 ELSE stored.v
       ELSE stored[f]]

\* ---------------------------------------------------------------- state
\* No early-repayment quote was computed yet.
NoQuote == [v |-> -1, val |-> 0]

\* The months a run of loan creations spans (getFullYear, getMonth).
IdMonths == <<[y |-> 2026, m |-> 11], [y |-> 2027, m |-> 0]>>
Routes == {"admin", "employee"}

\* A create request that has not counted yet.
NoCount == [route |-> "none", loanId |-> 0]

\* The loans collection as loanId generation sees it: the clock (an index
\* into IdMonths), the stored documents' loanId and createdAt month, and
\* the loanId each create request in flight derived.
NoLoans == [now |-> 1, docs |-> <<>>, counted |-> [r \in Reqs |-> NoCount]]

TypeOK ==
    /\ DOMAIN db = LoanIds
    /\ pc \in [Reqs -> {"idle", "pay", "admin"}]
    /\ DOMAIN held = Reqs
    /\ out \in {"none", "200", "201", "400 validation", "400 terms",
                "400 closed", "400 duplicate", "404", "500", "500 cast"}
    /\ failed \subseteq {"pdf", "email"}
    /\ quote \in [v : -1..cap, val : Int]
    /\ cap \in Nat
    /\ loans.now \in DOMAIN IdMonths
    /\ Len(loans.docs) <= MaxLoans
    /\ DOMAIN loans.counted = Reqs

Init ==
    /\ db = [id \in LoanIds |-> NoLoan]
    /\ pc = [r \in Reqs |-> "idle"]
    /\ held = [r \in Reqs |-> NoHeld]
    /\ out = "none"
    /\ failed = {}
    /\ quote = NoQuote
    /\ cap = MaxOps
    /\ loans = NoLoans

\* ------------------------------------------------- POST /loans (create)
\* Loan.create with terms the validators reject: nothing is stored.
CreateLoanInvalid(id, P, R, n) ==
    /\ db[id] = NoLoan
    /\ ~ValidTerms(P, R, n)
    /\ out' = "400 terms"
    /\ UNCHANGED <<db, pc, held, failed, quote, cap, loans>>

\* Loan.create with valid terms: validation, then pre('save'), then insert.
CreateLoan(id, P, R, n, clientMP, annot, createdAt) ==
    /\ db[id] = NoLoan
    /\ ValidTerms(P, R, n)
    /\ db' = [db EXCEPT ![id] = NewLoan(P, R, n, clientMP, annot, createdAt)]
    /\ out' = "201"
    /\ UNCHANGED <<pc, held, failed, quote, cap, loans>>

\* The failed cast of NaN inside pre('save') is recorded on the document;
\* a build whose save() reports it stores nothing.
CreateLoanCastError(id, P, R, n) ==
    /\ db[id] = NoLoan
    /\ ValidTerms(P, R, n)
    /\ Amortize(P, R, n).nan
    /\ out' = "500 cast"
    /\ UNCHANGED <<db, pc, held, failed, quote, cap, loans>>

\* Requests in flight are anonymous: an arriving request takes the lowest
\* free slot.
Arrives(r) == pc[r] = "idle" /\ \A q \in Reqs : q < r => pc[q] # "idle"

\* ------------------------------------------ POST /api/loans/:id/payment
ValidPaymentBody(a, method, hasTxn) ==
    /\ isNumeric(a)
    /\ method \in {"handcash", "online"}
    /\ (method = "online" => hasTxn)

\* validationResult(req) is not empty: 400, nothing loaded.
PaymentInvalid(r, a, method, hasTxn) ==
    /\ Arrives(r)
    /\ ~ValidPaymentBody(a, method, hasTxn)
    /\ out' = "400 validation"
    /\ UNCHANGED <<db, pc, held, failed, quote, cap, loans>>

\* findById finds nothing: 404.
PaymentNotFound(r, id, a, method, hasTxn) ==
    /\ Arrives(r)
    /\ ValidPaymentBody(a, method, hasTxn)
    /\ db[id] = NoLoan
    /\ out' = "404"
    /\ UNCHANGED <<db, pc, held, failed, quote, cap, loans>>

\* The loaded loan is closed: 400 'Loan is already closed'.
PaymentClosed(r, id, a, method, hasTxn) ==
    /\ Arrives(r)
    /\ ValidPaymentBody(a, method, hasTxn)
    /\ db[id] # NoLoan
    /\ db[id].status = "closed"
    /\ out' = "400 closed"
    /\ UNCHANGED <<db, pc, held, failed, quote, cap, loans>>

\* PaymentLoad without the handler's test of loan.status.
PaymentLoadIgnoringClosed(r, id, a, method, hasTxn) ==
    /\ Arrives(r)
    /\ ValidPaymentBody(a, method, hasTxn)
    /\ db[id] # NoLoan
    /\ db[id].v < cap
    /\ pc' = [pc EXCEPT ![r] = "pay"]
    /\ held' = [held EXCEPT ![r] = [id |-> id, doc |-> db[id], amount |-> a]]
    /\ out' = "none"
    /\ UNCHANGED <<db, failed, quote, cap, loans>>

\* The handler up to the call of recordPayment: the loan is loaded.
PaymentLoad(r, id, a, method, hasTxn) ==
    /\ Arrives(r)
    /\ ValidPaymentBody(a, method, hasTxn)
    /\ db[id] # NoLoan
    /\ db[id].status # "closed"
    /\ db[id].v < cap
    /\ pc' = [pc EXCEPT ![r] = "pay"]
    /\ held' = [held EXCEPT ![r] = [id |-> id, doc |-> db[id], amount |-> a]]
    /\ out' = "none"
    /\ UNCHANGED <<db, failed, quote, cap, loans>>

\* PaymentRecord with sendMail outside any inner try: its rejection reaches
\* the handler's outer catch, which answers 500 after the save.
PaymentRecordMailUncaught(r, days, pdfOk, mailOk) ==
    /\ pc[r] = "pay"
    /\ pc' = [pc EXCEPT ![r] = "idle"]
    /\ held' = [held EXCEPT ![r] = NoHeld]
    /\ IF CurrentInstallment(held[r].doc) = 0
       THEN /\ out' = "500"
            /\ failed' = {}
            /\ UNCHANGED db
       ELSE /\ db[held[r].id].v < cap
            /\ LET id == held[r].id
                   before == held[r].doc
                   now == getTime(before.createdAt) + days
                   after == recordPayment(before, held[r].amount, now)
               IN db' = [db EXCEPT ![id] = ApplyDelta(db[id], before, after)]
            /\ failed' = (IF pdfOk THEN {} ELSE {"pdf"})
                            \cup (IF mailOk THEN {} ELSE {"email"})
            /\ out' = IF mailOk THEN "200" ELSE "500"
    /\ UNCHANGED <<quote, cap, loans>>

\* PaymentRecord with a recordPayment that, finding no pending or partial
\* installment, skips the installment and goes on to the totals.
PaymentRecordWithoutInstallment(r, days, pdfOk, mailOk) ==
    /\ pc[r] = "pay"
    /\ pc' = [pc EXCEPT ![r] = "idle"]
    /\ held' = [held EXCEPT ![r] = NoHeld]
    /\ db[held[r].id].v < cap
    /\ LET id == held[r].id
           before == held[r].doc
           now == getTime(before.createdAt) + days
           a == held[r].amount
           after == IF CurrentInstallment(before) = 0
                    THEN [before EXCEPT
                            !.totalPaid = Fl(PlusAssign(@, a)),
                            !.remainingBalance = Fl(@ - ToNumber(a))]
                    ELSE recordPayment(before, a, now)
       IN db' = [db EXCEPT ![id] = ApplyDelta(db[id], before, after)]
    /\ failed' = (IF pdfOk THEN {} ELSE {"pdf"})
                    \cup (IF mailOk THEN {} ELSE {"email"})
    /\ out' = "200"
    /\ UNCHANGED <<quote, cap, loans>>

\* recordPayment with its save(), then the receipt, the mail and the
\* success response.  generatePaymentReceiptPDF and sendMail each run inside
\* a try whose catch only logs, so a failure of either (pdfOk, mailOk
\* false) is recorded in `failed` and the handler goes on to res.json.
\* When no installment is pending or partial recordPayment throws 'No
\* pending installments found' before any assignment and the handler
\* answers 500.  new Date() reads `days` days after createdAt.
PaymentRecord(r, days, pdfOk, mailOk) ==
    /\ pc[r] = "pay"
    /\ pc' = [pc EXCEPT ![r] = "idle"]
    /\ held' = [held EXCEPT ![r] = NoHeld]
    /\ IF CurrentInstallment(held[r].doc) = 0
       THEN /\ out' = "500"
            /\ failed' = {}
            /\ UNCHANGED db
       ELSE /\ db[held[r].id].v < cap
            /\ LET id == held[r].id
                   before == held[r].doc
                   now == getTime(before.createdAt) + days
                   after == recordPayment(before, held[r].amount, now)
               IN db' = [db EXCEPT ![id] = ApplyDelta(db[id], before, after)]
            /\ failed' = (IF pdfOk THEN {} ELSE {"pdf"})
                            \cup (IF mailOk THEN {} ELSE {"email"})
            /\ out' = "200"
    /\ UNCHANGED <<quote, cap, loans>>

\* ------------------------------------------ calculateEarlyRepaymentAmount
\* Quote with the method storing its result as the loan's remainingBalance.
QuoteStoresBalance(r, id) ==
    /\ Arrives(r)
    /\ db[id] # NoLoan
    /\ quote' = [v |-> db[id].v, val |-> calculateEarlyRepaymentAmount(db[id])]
    /\ db' = [db EXCEPT ![id].remainingBalance =
                          calculateEarlyRepaymentAmount(db[id])]
    /\ UNCHANGED <<pc, held, out, failed, cap, loans>>

\* A caller holding the stored loan asks it for the early-repayment amount.
Quote(r, id) ==
    /\ Arrives(r)
    /\ db[id] # NoLoan
    /\ quote' = [v |-> db[id].v, val |-> calculateEarlyRepaymentAmount(db[id])]
    /\ UNCHANGED <<db, pc, held, out, failed, cap, loans>>

\* ------------------------------------------- PUT /api/admin/loans/:id
AdminNotFound(r, id) ==
    /\ Arrives(r)
    /\ db[id] = NoLoan
    /\ out' = "404"
    /\ UNCHANGED <<db, pc, held, failed, quote, cap, loans>>

AdminLoad(r, id, annot) ==
    /\ Arrives(r)
    /\ db[id] # NoLoan
    /\ db[id].v < cap
    /\ pc' = [pc EXCEPT ![r] = "admin"]
    /\ held' = [held EXCEPT ![r] = [id |-> id, doc |-> db[id], annot |-> annot]]
    /\ out' = "none"
    /\ UNCHANGED <<db, failed, quote, cap, loans>>

\* AdminSave with a pre('save') hook that rebuilds the schedule on every
\* save, not only when the document is new.
AdminSaveRegenerates(r) ==
    /\ pc[r] = "admin"
    /\ db[held[r].id].v = held[r].doc.v
    /\ db[held[r].id].v < cap
    /\ LET id == held[r].id
           before == held[r].doc
           after == [before EXCEPT
                       !.annot = held[r].annot,
                       !.installments = Schedule(before.term,
                                                 before.monthlyPayment,
                                                 before.createdAt)]
       IN db' = [db EXCEPT ![id] = [ApplyDelta(db[id], before, after)
                                      EXCEPT !.v = db[id].v + 1]]
    /\ pc' = [pc EXCEPT ![r] = "idle"]
    /\ held' = [held EXCEPT ![r] = NoHeld]
    /\ out' = "200"
    /\ UNCHANGED <<failed, quote, cap, loans>>

\* AdminSave with a route that also assigns the body's value to term.
AdminSaveAssignsTerm(r) ==
    /\ pc[r] = "admin"
    /\ db[held[r].id].v = held[r].doc.v
    /\ db[held[r].id].v < cap
    /\ LET id == held[r].id
           before == held[r].doc
           after == [before EXCEPT !.annot = held[r].annot]
       IN db' = [db EXCEPT ![id] = [ApplyDelta(db[id], before, after)
                                      EXCEPT !.v = db[id].v + 1,
                                             !.term = held[r].annot]]
    /\ pc' = [pc EXCEPT ![r] = "idle"]
    /\ held' = [held EXCEPT ![r] = NoHeld]
    /\ out' = "200"
    /\ UNCHANGED <<failed, quote, cap, loans>>

\* save() after assigning goldItems, depositedBank and renewalDate.  Setting
\* a whole array makes the update conditional on the version the document
\* was loaded with.
AdminSave(r) ==
    /\ pc[r] = "admin"
    /\ db[held[r].id].v = held[r].doc.v
    /\ db[held[r].id].v < cap
    /\ LET id == held[r].id
           before == held[r].doc
           after == [before EXCEPT !.annot = held[r].annot]
       IN db' = [db EXCEPT ![id] = [ApplyDelta(db[id], before, after)
                                      EXCEPT !.v = db[id].v + 1]]
    /\ pc' = [pc EXCEPT ![r] = "idle"]
    /\ held' = [held EXCEPT ![r] = NoHeld]
    /\ out' = "200"
    /\ UNCHANGED <<failed, quote, cap, loans>>

\* The stored version moved since the load: VersionError, 500.
AdminVersionError(r) ==
    /\ pc[r] = "admin"
    /\ db[held[r].id].v # held[r].doc.v
    /\ pc' = [pc EXCEPT ![r] = "idle"]
    /\ held' = [held EXCEPT ![r] = NoHeld]
    /\ out' = "500"
    /\ UNCHANGED <<db, failed, quote, cap, loans>>

\* ------------------------------------------------------- loanId of a loan
\* x.toString().padStart(2, '0'): the number of characters of the text.
PadWidth(x) == Max(2, Digits(x))

\* `CY${year}${month}${loanCount padded}`, read as the decimal number its
\* digits spell: year is getFullYear() % 1000, month is getMonth() + 1
\* padded to two characters.
LoanCode(date, loanCount) ==
    (((date.y % 1000) * Pow(10, PadWidth(date.m + 1))) + (date.m + 1))
       * Pow(10, PadWidth(loanCount)) + loanCount

\* Loan.countDocuments over createdAt within the month of `now`.
countDocuments(docs, now) ==
    Cardinality({i \in DOMAIN docs : docs[i].createdAt = now})

StoredLoanIds == {loans.docs[i].loanId : i \in DOMAIN loans.docs}

\* The create handler up to its await of countDocuments: the loanId is
\* derived from the count of this month's loans plus one.
CountLoans(r, route) ==
    /\ loans.counted[r] = NoCount
    /\ Len(loans.docs) < MaxLoans
    /\ loans' = [loans EXCEPT
                   !.counted[r] =
                      [route |-> route,
                       loanId |-> LoanCode(IdMonths[loans.now],
                                     countDocuments(loans.docs, loans.now) + 1)]]
    /\ UNCHANGED <<db, pc, held, out, failed, quote, cap>>

\* InsertLoan on a collection without the unique index on loanId.
InsertLoanNoIndex(r) ==
    /\ loans.counted[r] # NoCount
    /\ Len(loans.docs) < MaxLoans
    /\ loans' = [loans EXCEPT
                   !.docs = Append(@, [loanId |-> loans.counted[r].loanId,
                                       createdAt |-> loans.now]),
                   !.counted[r] = NoCount]
    /\ out' = "201"
    /\ UNCHANGED <<db, pc, held, failed, quote, cap>>

\* Loan.create: createdAt defaults to the time of the call; the unique
\* index on loanId admits the document.
InsertLoan(r) ==
    /\ loans.counted[r] # NoCount
    /\ loans.counted[r].loanId \notin StoredLoanIds
    /\ Len(loans.docs) < MaxLoans
    /\ loans' = [loans EXCEPT
                   !.docs = Append(@, [loanId |-> loans.counted[r].loanId,
                                       createdAt |-> loans.now]),
                   !.counted[r] = NoCount]
    /\ out' = "201"
    /\ UNCHANGED <<db, pc, held, failed, quote, cap>>

\* Loan.create rejected by the unique index (E11000): the admin route
\* answers 400 'Duplicate key error', the employee route's inner catch 500.
InsertDuplicate(r) ==
    /\ loans.counted[r] # NoCount
    /\ loans.counted[r].loanId \in StoredLoanIds
    /\ loans' = [loans EXCEPT !.counted[r] = NoCount]
    /\ out' = IF loans.counted[r].route = "admin"
              THEN "400 duplicate" ELSE "500"
    /\ UNCHANGED <<db, pc, held, failed, quote, cap>>

\* The calendar month ends.
MonthPasses ==
    /\ loans.now + 1 \in DOMAIN IdMonths
    /\ loans' = [loans EXCEPT !.now = @ + 1]
    /\ UNCHANGED <<db, pc, held, out, failed, quote, cap>>

\* ------------------------------------------------------- specification
Next ==
    \/ \E id \in LoanIds, P \in Principals, R \in Rates, n \in Terms :
         CreateLoanInvalid(id, P, R, n)
    \/ \E id \in LoanIds, P \in Principals, R \in Rates, n \in Terms,
          m \in ClientMonthlyPayments, g \in AdminInputs,
          dt \in CreationDates :
         CreateLoan(id, P, R, n, m, g, dt)
    \/ \E id \in LoanIds, P \in Principals, R \in Rates, n \in Terms :
         CreateLoanCastError(id, P, R, n)
    \/ \E r \in Reqs, a \in Amounts, m \in Methods, t \in BOOLEAN :
         PaymentInvalid(r, a, m, t)
    \/ \E r \in Reqs, id \in LoanIds, a \in Amounts, m \in Methods,
          t \in BOOLEAN :
         \/ PaymentNotFound(r, id, a, m, t)
         \/ PaymentClosed(r, id, a, m, t)
         \/ PaymentLoad(r, id, a, m, t)
    \/ \E r \in Reqs, days \in ClockDays : PaymentRecord(r, days, TRUE, TRUE)
    \/ \E r \in Reqs, id \in LoanIds : AdminNotFound(r, id)
    \/ \E r \in Reqs, id \in LoanIds, g \in AdminInputs : AdminLoad(r, id, g)
    \/ \E r \in Reqs : AdminSave(r)
    \/ \E r \in Reqs : AdminVersionError(r)

Spec == Init /\ [][Next]_vars

\* Loan creation over the calendar.
CalendarDates == {dt \in [m : 0..11, d : CalendarDays] : dt.d <= DaysIn(dt.m)}

NextCreate ==
    \/ \E id \in LoanIds, P \in Principals, R \in SeqRates, n \in Terms :
         CreateLoanInvalid(id, P, R, n)
    \/ \E id \in LoanIds, P \in Principals, R \in SeqRates, n \in Terms,
          m \in ClientMonthlyPayments, g \in AdminInputs,
          dt \in CalendarDates :
         CreateLoan(id, P, R, n, m, g, dt)
    \/ \E id \in LoanIds, P \in Principals, R \in SeqRates, n \in Terms :
         CreateLoanCastError(id, P, R, n)

SpecCreate == Init /\ [][NextCreate]_vars

\* One request at a time, with the clock, the receipt and mail outcomes
\* and the early-repayment quote.
NextSeq ==
    \/ \E id \in LoanIds, P \in Principals, R \in SeqRates, n \in Terms :
         CreateLoanInvalid(id, P, R, n)
    \/ \E id \in LoanIds, P \in Principals, R \in SeqRates, n \in Terms,
          m \in ClientMonthlyPayments, dt \in CreationDates :
         CreateLoan(id, P, R, n, m, 1, dt)
    \/ \E id \in LoanIds, P \in Principals, R \in SeqRates, n \in Terms :
         CreateLoanCastError(id, P, R, n)
    \/ \E a \in Amounts, m \in Methods, t \in BOOLEAN :
         PaymentInvalid(1, a, m, t)
    \/ \E id \in LoanIds, a \in Amounts, m \in Methods, t \in BOOLEAN :
         \/ PaymentNotFound(1, id, a, m, t)
         \/ PaymentClosed(1, id, a, m, t)
         \/ PaymentLoad(1, id, a, m, t)
    \/ \E days \in SeqClockDays, pdfOk \in BOOLEAN, mailOk \in BOOLEAN :
         PaymentRecord(1, days, pdfOk, mailOk)
    \/ \E id \in LoanIds : Quote(1, id)

SpecSeq == Init /\ [][NextSeq]_vars

\* Longer runs on one loan whose total is a rounded product: 11400 at 24%
\* over 3 months, paid in whole and part installments by overlapping
\* requests, with room for two more saves than Spec allows.
DeepPrincipals == {11400}
DeepRates == {24}
DeepTerms == {3}
DeepAmounts == [kind : {"num"}, v : {1000, 3953, 7907}]

InitDeep ==
    /\ db = [id \in LoanIds |-> NoLoan]
    /\ pc = [r \in Reqs |-> "idle"]
    /\ held = [r \in Reqs |-> NoHeld]
    /\ out = "none"
    /\ failed = {}
    /\ quote = NoQuote
    /\ cap = MaxOps + 2
    /\ loans = NoLoans

NextDeep ==
    \/ \E id \in LoanIds, P \in DeepPrincipals, R \in DeepRates,
          n \in DeepTerms, m \in ClientMonthlyPayments,
          dt \in CreationDates :
         CreateLoan(id, P, R, n, m, 1, dt)
    \/ \E r \in Reqs, id \in LoanIds, a \in DeepAmounts :
         \/ PaymentClosed(r, id, a, "handcash", FALSE)
         \/ PaymentLoad(r, id, a, "handcash", FALSE)
    \/ \E r \in Reqs, days \in ClockDays : PaymentRecord(r, days, TRUE, TRUE)

SpecDeep == InitDeep /\ [][NextDeep]_vars

\* Overlapping create requests, seen from the loans collection.
NextIds ==
    \/ \E r \in Reqs, route \in Routes : CountLoans(r, route)
    \/ \E r \in Reqs : InsertLoan(r)
    \/ \E r \in Reqs : InsertDuplicate(r)
    \/ MonthPasses

SpecIds == Init /\ [][NextIds]_vars

\* ------------------------------------------------------------- claims
Stored == {id \in LoanIds : db[id] # NoLoan}

\* The step in which request r's recordPayment saved and answered 200.
Recorded(r) == pc[r] = "pay" /\ pc'[r] = "idle" /\ out' = "200"

\* A loan created at a positive interest rate, every payment stored on it
\* of a positive amount.
PositivePayments(loan) ==
    /\ loan.interestRate > 0
    /\ \A k \in DOMAIN loan.payments : loan.payments[k].amount > 0

\* Every payment request in flight carries a positive JSON number.
PositiveRequests ==
    \A r \in Reqs : pc[r] = "pay" =>
        held[r].amount.kind = "num" /\ held[r].amount.v > 0

\* C1: in every reachable state a stored loan's remainingBalance equals
\* its totalPayment minus its totalPaid (stated for loans at a
\* positive interest rate all of whose payments had positive amounts).
C1_BalanceInvariant ==
    \A id \in Stored : PositivePayments(db[id]) =>
        db[id].remainingBalance = db[id].totalPayment - db[id].totalPaid

\* C2: after every payment that recordPayment saved, the stored loan is
\* closed if and only if its remainingBalance is at most 0 (stated for
\* loans at a positive interest rate and payments of positive JSON numbers).
C2_ClosedIffSettled ==
    [][\A r \in Reqs : (Recorded(r) /\ PositiveRequests
                         /\ PositivePayments(db[held[r].id])) =>
         LET id == held[r].id
         IN (db'[id].status = "closed") <=> (db'[id].remainingBalance <= 0)]_vars

\* C3: payments on one loan are mutually exclusive: every saved payment
\* leaves the stored loan as recordPayment leaves the loan that was stored
\* just before the save (totalPaid, remainingBalance, payments and
\* installments all carry the payment on top of every earlier one; stated
\* for loans at a positive interest rate and payments of positive JSON
\* numbers).
C3_NoLostUpdate ==
    [][\A r \in Reqs : (Recorded(r) /\ PositiveRequests
                         /\ PositivePayments(db[held[r].id])) =>
         LET id == held[r].id
         IN /\ db[id].status # "closed"
            /\ CurrentInstallment(db[id]) # 0
            /\ \E days \in ClockDays :
                 db'[id] = [recordPayment(db[id], held[r].amount,
                                          getTime(db[id].createdAt) + days)
                              EXCEPT !.v = db[id].v + 1]]_vars

\* C4: once a stored loan is closed, no step changes its status,
\* totalPaid, remainingBalance, payments or installments (stated for
\* loans at a positive interest rate and payments of positive JSON numbers).
C4_ClosedIsTerminal ==
    [][\A id \in Stored : (db[id].status = "closed" /\ PositiveRequests
                            /\ PositivePayments(db[id])) =>
         /\ db'[id].status = "closed"
         /\ db'[id].totalPaid = db[id].totalPaid
         /\ db'[id].remainingBalance = db[id].remainingBalance
         /\ db'[id].payments = db[id].payments
         /\ db'[id].installments = db[id].installments]_vars

\* C5: a payment request that finds the loan closed never reaches
\* recordPayment, and the step that answers 'Loan is already closed'
\* leaves the stored loan (payments, totals, installments) unchanged.
C5_ClosedLoanRejected ==
    [][/\ \A r \in Reqs : (pc[r] = "idle" /\ pc'[r] = "pay") =>
              db[held'[r].id].status # "closed"
       /\ (out' = "400 closed" => db' = db)]_vars

\* C5 witness: a payment request was answered 'Loan is already closed'
\* while the stored loan is closed.
C5_Witness ==
    /\ out = "400 closed"
    /\ \E id \in Stored : db[id].status = "closed"

\* C6: every saved payment leaves totalPaid at least as large and
\* remainingBalance at most as large as before the save (stated for loans
\* at a positive interest rate).
C6_Monotonic ==
    [][\A r \in Reqs : (Recorded(r) /\ held[r].doc.interestRate > 0) =>
         LET id == held[r].id
         IN /\ db'[id].totalPaid >= db[id].totalPaid
            /\ db'[id].remainingBalance <= db[id].remainingBalance]_vars

\* C7: a payment request whose amount is zero or negative is rejected
\* with a validation error, so it never reaches recordPayment and never
\* changes the loan (stated for loans at a positive interest rate).
C7_PositiveAmountRequired ==
    \A r \in Reqs : (pc[r] = "pay" /\ held[r].doc.interestRate > 0) =>
        ToNumber(held[r].amount) > 0

\* C8: in every reachable state totalPaid equals the sum of the amounts of
\* the loan's Payment records (stated for loans at a positive
\* interest rate all of whose payments had positive amounts).
C8_TotalPaidIsSumOfPayments ==
    \A id \in Stored : PositivePayments(db[id]) =>
        db[id].totalPaid = SumSeq(db[id].payments, "amount")

C10_StatusAgreesWithAmountPaid ==
    \A id \in Stored : \A i \in DOMAIN db[id].installments :
        LET inst == db[id].installments[i]
        IN db[id].interestRate > 0 =>
           /\ (inst.status = "pending") <=> (inst.amountPaid = 0)
           /\ (inst.status = "partial") <=>
                (0 < inst.amountPaid /\ inst.amountPaid < inst.amount)
           /\ (inst.status = "paid") <=> (inst.amountPaid >= inst.amount)

\* C11: along every execution no stored installment regresses: a 'partial'
\* installment never becomes 'pending', a 'paid' installment stays 'paid',
\* and amountPaid never decreases (stated for loans at a positive interest
\* rate and payments of positive JSON numbers).
C11_InstallmentNeverRegresses ==
    [][\A id \in Stored : (PositiveRequests /\ PositivePayments(db[id])) =>
         \A i \in DOMAIN db[id].installments :
           LET old == db[id].installments[i]
               new == db'[id].installments[i]
           IN /\ (old.status = "partial" => new.status # "pending")
              /\ (old.status = "paid" => new.status = "paid")
              /\ new.amountPaid >= old.amountPaid]_vars

\* C12: a payment step in which the receipt or the mail failed still
\* answers 200 and appends its payment to the stored loan, and no step
\* ever removes a stored payment.
C12_NotificationFailureKeepsPayment ==
    [][/\ \A r \in Reqs :
            (pc[r] = "pay" /\ pc'[r] = "idle" /\ failed' # {}) =>
              LET id == held[r].id
                  last == Len(db'[id].payments)
              IN /\ out' = "200"
                 /\ last = Len(db[id].payments) + 1
                 /\ db'[id].payments[last].amount = ToNumber(held[r].amount)
       /\ \A id \in Stored :
            SubSeq(db'[id].payments, 1, Len(db[id].payments))
              = db[id].payments]_vars

\* C12 witness: the latest payment was answered 200 although both the
\* receipt and the mail failed, and the loan holds a payment.
C12_Witness ==
    /\ failed = {"pdf", "email"}
    /\ out = "200"
    /\ \E id \in Stored : Len(db[id].payments) >= 1

C14_ZeroRateSpecialCased ==
    /\ \A id \in Stored : (db[id].interestRate = 0 /\ db[id].v = 0) =>
          /\ db[id].monthlyPayment = db[id].amount \div db[id].term
          /\ db[id].totalPayment = db[id].amount
    /\ out # "500 cast"

\* C15: a create request with principal < 100, term < 1 or interest rate
\* < 0 stores nothing: every loan that a step stores has amount >= 100,
\* term >= 1 and interestRate >= 0, and the step that answers with the
\* validation error leaves the store unchanged.
C15_InvalidTermsRejected ==
    [][/\ \A id \in LoanIds : (db[id] = NoLoan /\ db'[id] # NoLoan) =>
            /\ db'[id].amount >= 100
            /\ db'[id].term >= 1
            /\ db'[id].interestRate >= 0
       /\ (out' = "400 terms" => db' = db)]_vars

\* C15 witness: a create request was answered with the validation error
\* and no loan is stored.
C15_Witness ==
    /\ out = "400 terms"
    /\ \A id \in LoanIds : db[id] = NoLoan

\* The latest quote was computed from loan id as it is stored now.
QuoteIsCurrent(id) == db[id] # NoLoan /\ quote.v = db[id].v

\* C16: the early-repayment amount of a loan without actualRepaymentDate
\* is its remainingBalance; otherwise it is
\* round(max(principal + principal * (rate / 100 / 12) * monthsUsed
\* - totalPaid, 0)), monthsUsed the least whole number of 30.44-day months
\* covering actualRepaymentDate - createdAt, and it is never negative.
C16_EarlyRepaymentAmount ==
    \A id \in LoanIds : QuoteIsCurrent(id) =>
        LET loan == db[id]
            days == loan.actualRepaymentDate - getTime(loan.createdAt)
            monthsUsed == CHOOSE k \in 0..days :
                              /\ k * 3044 >= days * 100
                              /\ (k - 1) * 3044 < days * 100
            owed == 1200 * loan.amount
                      + loan.amount * loan.interestRate * monthsUsed
                      - 1200 * loan.totalPaid
            due == IF owed > 0 THEN owed ELSE 0
        IN IF loan.actualRepaymentDate = NoDate
           THEN quote.val = loan.remainingBalance
           ELSE /\ quote.val >= 0
                /\ 2400 * quote.val <= 2 * due + 1200
                /\ 2 * due + 1200 < 2400 * (quote.val + 1)

\* C16 witness: a quote of a closed loan that still owes interest for the
\* months used.
C16_Witness ==
    \E id \in LoanIds :
        /\ QuoteIsCurrent(id)
        /\ db[id].actualRepaymentDate # NoDate
        /\ quote.val > 0

OpenInstallments(doc) ==
    {i \in DOMAIN doc.installments :
        doc.installments[i].status \in {"pending", "partial"}}

Lowest(S) == CHOOSE i \in S : \A j \in S : i <= j

\* C18: every saved payment goes to the lowest-numbered installment that
\* was 'pending' or 'partial' on the loan the request loaded: the appended
\* Payment carries that installment's number and the save touches no other
\* installment.
C18_AllocatedToLowestOpen ==
    [][\A r \in Reqs : Recorded(r) =>
         LET id == held[r].id
             doc == held[r].doc
             low == Lowest(OpenInstallments(doc))
             last == Len(db'[id].payments)
         IN /\ OpenInstallments(doc) # {}
            /\ db'[id].payments[last].installmentNumber
                 = doc.installments[low].number
            /\ doc.installments[low].number = low
            /\ \A j \in DOMAIN db[id].installments :
                 db'[id].installments[j] # db[id].installments[j] => j = low]_vars

\* C18 witness: the latest payment went to installment 2 after installment
\* 1 was paid.
C18_Witness ==
    \E id \in Stored :
        /\ out = "200"
        /\ Len(db[id].payments) >= 2
        /\ db[id].payments[Len(db[id].payments)].installmentNumber = 2
        /\ db[id].installments[1].status = "paid"
        /\ db[id].installments[2].amountPaid > 0

\* C19: a saved payment changes no installment but the current one; on a
\* loan that no other request changed since it was loaded, the current
\* installment's amountPaid grows by min(amount, amount due on it), and
\* totalPaid and remainingBalance move by the whole amount, also when the
\* amount exceeds what is due on the installment (sums and differences
\* are those of Number arithmetic).
C19_OnlyCurrentInstallmentChanges ==
    [][\A r \in Reqs : Recorded(r) =>
         LET id == held[r].id
             doc == held[r].doc
             low == Lowest(OpenInstallments(doc))
             cur == doc.installments[low]
             amount == ToNumber(held[r].amount)
             room == Fl(cur.amount - cur.amountPaid)
         IN /\ \A j \in DOMAIN db[id].installments : j # low =>
                 /\ db'[id].installments[j].amountPaid
                      = db[id].installments[j].amountPaid
                 /\ db'[id].installments[j].status
                      = db[id].installments[j].status
            /\ db[id] = doc =>
                 /\ db'[id].installments[low].amountPaid
                      = Fl(cur.amountPaid
                             + (IF amount <= room THEN amount ELSE room))
                 /\ db'[id].remainingBalance
                      = Fl(doc.remainingBalance - amount)
                 /\ held[r].amount.kind = "num" =>
                      db'[id].totalPaid = Fl(doc.totalPaid + amount)]_vars

\* C19 witness: one payment larger than the first installment is stored:
\* installment 1 holds exactly its amount, installment 2 is untouched and
\* totalPaid holds the whole payment.
C19_Witness ==
    \E id \in Stored :
        /\ out = "200"
        /\ Len(db[id].payments) = 1
        /\ Len(db[id].installments) >= 2
        /\ db[id].payments[1].amount > db[id].installments[1].amount
        /\ db[id].installments[1].amountPaid = db[id].installments[1].amount
        /\ db[id].installments[2].amountPaid = 0
        /\ db[id].installments[2].status = "pending"
        /\ db[id].totalPaid = db[id].payments[1].amount

\* C20: in every reachable state the last Payment record of a loan carries
\* the loan's current remainingBalance (stated for loans at a positive
\* interest rate none of whose payments had a negative amount).
C20_LastPaymentCarriesBalance ==
    \A id \in Stored :
        (/\ db[id].interestRate > 0
         /\ Len(db[id].payments) >= 1
         /\ \A k \in DOMAIN db[id].payments : db[id].payments[k].amount >= 0) =>
            db[id].payments[Len(db[id].payments)].remainingBalance
              = db[id].remainingBalance

\* C21: in every reachable state a closed loan has its closedDate and its
\* actualRepaymentDate set and its actualAmountPaid equal to its totalPaid,
\* and a loan that is not closed has neither date set (stated for loans at
\* a positive interest rate all of whose payments had positive amounts).
C21_ClosureFieldsAgree ==
    \A id \in Stored : PositivePayments(db[id]) =>
        IF db[id].status = "closed"
        THEN /\ db[id].closedDate # NoDate
             /\ db[id].actualRepaymentDate # NoDate
             /\ db[id].actualAmountPaid = db[id].totalPaid
        ELSE /\ db[id].closedDate = NoDate
             /\ db[id].actualRepaymentDate = NoDate

\* C23: the schedule is generated once: every step keeps the number of a
\* stored loan's installments and each installment's number, dueDate and
\* amount, and changes an installment's amountPaid or status only in the
\* step in which a recordPayment is saved.
C23_ScheduleIsFixed ==
    [][\A id \in LoanIds : db[id] # NoLoan =>
         /\ db'[id] # NoLoan
         /\ Len(db'[id].installments) = Len(db[id].installments)
         /\ \A i \in DOMAIN db[id].installments :
              /\ db'[id].installments[i].number = db[id].installments[i].number
              /\ db'[id].installments[i].dueDate
                   = db[id].installments[i].dueDate
              /\ db'[id].installments[i].amount = db[id].installments[i].amount
         /\ (db'[id].installments # db[id].installments =>
               \E r \in Reqs : Recorded(r))]_vars

\* A loan saved twice, once by a payment and once by the admin update,
\* still carrying the schedule of its creation around the payment.
C23_Witness ==
    \E id \in Stored :
        /\ db[id].v = 2
        /\ Len(db[id].payments) = 1
        /\ db[id].term = 2
        /\ db[id].installments[1].amountPaid > 0
        /\ \A i \in 1..2 :
             /\ db[id].installments[i].number = i
             /\ db[id].installments[i].amount = db[id].monthlyPayment
             /\ db[id].installments[i].dueDate = DueDate(db[id].createdAt, i)

\* C24: after creation no step changes a stored loan's amount,
\* interestRate, term, monthlyPayment or totalPayment.
C24_TermsAreFixed ==
    [][\A id \in LoanIds : db[id] # NoLoan =>
         /\ db'[id] # NoLoan
         /\ db'[id].amount = db[id].amount
         /\ db'[id].interestRate = db[id].interestRate
         /\ db'[id].term = db[id].term
         /\ db'[id].monthlyPayment = db[id].monthlyPayment
         /\ db'[id].totalPayment = db[id].totalPayment]_vars

\* A closed loan that went through two saves and still has the terms it was
\* created with: monthlyPayment is the amortised payment of amount,
\* interestRate and term, totalPayment is monthlyPayment times term.
C24_Witness ==
    \E id \in Stored :
        /\ db[id].v = 2
        /\ db[id].status = "closed"
        /\ db[id].interestRate > 0
        /\ db[id].monthlyPayment
             = Fl(Amortize(db[id].amount, db[id].interestRate, db[id].term).val)
        /\ db[id].totalPayment = Fl(db[id].monthlyPayment * db[id].term)

\* new Date(d0) with one setMonth(getMonth() + k): the month advances by k,
\* the day of month is kept, and a day the new month does not have runs
\* over into the month after it.
AdvanceMonths(date, k) ==
    IF date.d <= DaysIn(date.m + k)
    THEN [m |-> date.m + k, d |-> date.d]
    ELSE [m |-> date.m + k + 1, d |-> date.d - DaysIn(date.m + k)]

\* C25: for every creation date d0 and every i in 1..term, the due date of
\* installment i is d0 advanced by i whole calendar months in one step:
\* the same day of month unless that single advance overflows, also when
\* d0 is the 29th, 30th or 31st.
C25_DueDateIsWholeMonths ==
    \A id \in Stored :
        \A i \in DOMAIN db[id].installments :
            db[id].installments[i].dueDate
              = AdvanceMonths(db[id].createdAt, i)

\* C29: the monthlyPayment, totalPayment and remainingBalance of the create
\* request never reach the stored loan: a newly stored loan carries the
\* amortised monthlyPayment of its amount, interestRate and term, with
\* totalPayment = monthlyPayment * term, remainingBalance = totalPayment,
\* totalPaid = 0 and no payments.
C29_ClientTotalsNeverStored ==
    \A id \in Stored : db[id].v = 0 =>
        LET raw == Amortize(db[id].amount, db[id].interestRate, db[id].term)
        IN /\ ~raw.nan
           /\ db[id].monthlyPayment = Fl(raw.val)
           /\ db[id].totalPayment = Fl(db[id].monthlyPayment * db[id].term)
           /\ db[id].remainingBalance = db[id].totalPayment
           /\ db[id].totalPaid = 0
           /\ db[id].payments = <<>>

AllPaid(doc) == \A i \in DOMAIN doc.installments :
                    doc.installments[i].status = "paid"

\* C27: 'every installment is paid but the loan is not closed' is
\* unreachable by payments of positive amounts: in every reachable state a
\* loan all of whose payments were positive and all of whose installments
\* are 'paid' is closed.
C27_AllPaidImpliesClosed ==
    \A id \in Stored :
        (PositivePayments(db[id]) /\ db[id].term >= 1 /\ AllPaid(db[id])) =>
            db[id].status = "closed"

\* C22: recordPayment on a loan that is not closed and has no 'pending' or
\* 'partial' installment fails with an error and applies nothing: the
\* request is answered 500 and the stored loan (payments, totalPaid,
\* remainingBalance, status, installments) is what it was.
C22_NoInstallmentNoPayment ==
    [][\A r \in Reqs :
         (/\ pc[r] = "pay"
          /\ pc'[r] = "idle"
          /\ held[r].doc.status # "closed"
          /\ CurrentInstallment(held[r].doc) = 0) =>
             /\ out' = "500"
             /\ db' = db]_vars

\* C22 witness: a payment request was answered 500 on a loan of three
\* installments, all 'paid', that is still active after three payments.
C22_Witness ==
    \E id \in Stored :
        /\ out = "500"
        /\ db[id].status = "active"
        /\ db[id].term = 3
        /\ AllPaid(db[id])
        /\ Len(db[id].payments) = 3
        /\ \A k \in 1..3 : db[id].payments[k].amount = db[id].monthlyPayment
        /\ db[id].remainingBalance > 0

\* C26: in every reachable state a loan's installments, in number order,
\* are 'paid' ones, then at most one 'partial', then 'pending' ones: no
\* 'paid' or 'partial' installment follows a 'pending' one, no 'paid' one
\* follows a 'partial' one, and at most one is 'partial' (stated for loans
\* at a positive interest rate all of whose payments had positive
\* amounts).
C26_PaidPartialPending ==
    \A id \in Stored : PositivePayments(db[id]) =>
        LET insts == db[id].installments
        IN \A i \in DOMAIN insts : \A j \in DOMAIN insts :
             i < j =>
               /\ insts[i].status = "pending" => insts[j].status = "pending"
               /\ insts[i].status = "partial" => insts[j].status = "pending"

\* C30: a payment of exactly the amount calculateEarlyRepaymentAmount
\* returns for an active loan at that moment closes the loan in the same
\* recordPayment call, whatever the state of its installments; and the
\* installments that are 'pending' or 'partial' on a closed loan are never
\* changed again.
C30_EarlyRepaymentCloses ==
    [][/\ \A r \in Reqs :
            (/\ pc[r] = "pay"
             /\ pc'[r] = "idle"
             /\ held[r].doc = db[held[r].id]
             /\ held[r].doc.status # "closed"
             /\ held[r].amount.kind = "num"
             /\ held[r].amount.v
                  = calculateEarlyRepaymentAmount(held[r].doc)) =>
                db'[held[r].id].status = "closed"
       /\ \A id \in LoanIds :
            (db[id] # NoLoan /\ db[id].status = "closed") =>
                /\ db'[id] # NoLoan
                /\ \A i \in DOMAIN db[id].installments :
                     db[id].installments[i].status \in {"pending", "partial"}
                       => db'[id].installments[i] = db[id].installments[i]]_vars

\* C28: loan codes stay unique when creations overlap: after every step
\* no two stored loans share a loanId, and a create request whose derived
\* loanId is already stored (another request that counted the same loans
\* was stored first) ends with an error and stores nothing.
C28_LoanIdsUnique ==
    [][/\ \A i \in DOMAIN loans'.docs : \A j \in DOMAIN loans'.docs :
            i # j => loans'.docs[i].loanId # loans'.docs[j].loanId
       /\ \A r \in Reqs :
            (/\ loans.counted[r] # NoCount
             /\ loans'.counted[r] = NoCount
             /\ loans.counted[r].loanId \in StoredLoanIds) =>
                /\ loans'.docs = loans.docs
                /\ out' \in {"400 duplicate", "500"}]_vars

\* C28 witness: two requests counted the empty month and derived the same
\* loanId; one was stored, the other was answered with the duplicate-key
\* error.
C28_Witness ==
    /\ out = "400 duplicate"
    /\ Len(loans.docs) = 1
    /\ loans.docs[1].loanId = LoanCode(IdMonths[1], 1)
    /\ \A r \in Reqs : loans.counted[r] = NoCount

====
